---- MODULE Spec2Model ----
(***************************************************************************)
(* Model of src/index.js: the four Express handlers (/generate-text,       *)
(* /generate-from-image, /generate-from-document, /generate-from-audio),   *)
(* the helper fileToGenerativePart, the upload store they share and the    *)
(* generation backend they call.                                           *)
(*                                                                         *)
(* A JavaScript value that may be undefined is a sequence of length at     *)
(* most one: <<>> is undefined, <<v>> is the value v.                      *)
(***************************************************************************)
EXTENDS Integers, Sequences, FiniteSets, TLC

VARIABLES
    req,        \* req[i]: the parsed request of invocation i (endpoint, body.prompt, file)
    pc,         \* pc[i]: where invocation i stands
    disk,       \* disk[p]: the bytes stored under upload path p, <<>> when no such file
    calls,      \* calls[i]: the arguments of each model.generateContent call, in order
    result,     \* result[i]: what the backend call resolved to, <<>> while it has not
    unlinkLog,  \* unlinkLog[i]: one entry per fs.unlinkSync call of invocation i
    thrown,     \* thrown[i]: the origins of the exceptions raised inside the try block
    responses,  \* responses[i]: the HTTP responses sent, in order
    events,     \* events[i]: what the handler of invocation i did, in program order
    srcBytes,   \* the bytes of the file handed to fileToGenerativePart
    srcMime,    \* the declared MIME type handed to fileToGenerativePart
    part        \* the part fileToGenerativePart returned, <<>> before the call

vars == <<req, pc, disk, calls, result, unlinkLog, thrown, responses, events,
          srcBytes, srcMime, part>>

pipelineVars == <<req, pc, disk, calls, result, unlinkLog, thrown, responses, events>>
partVars == <<srcBytes, srcMime, part>>

(***************************************************************************)
(* Bounds and input domains.                                               *)
(***************************************************************************)
MaxLen == 3

ByteValues == {0, 1, 63, 77, 128, 250, 255}

MimeTypes == {"image/png", "application/pdf", "audio/mpeg"}

RECURSIVE SeqsUpTo(_, _)
SeqsUpTo(S, n) ==
    IF n = 0 THEN {<<>>}
    ELSE LET shorter == SeqsUpTo(S, n - 1)
         IN  shorter \cup {Append(s, x) : s \in {t \in shorter : Len(t) = n - 1}, x \in S}

undefined == <<>>

(***************************************************************************)
(* Buffer.prototype.toString("base64") and its inverse.                    *)
(***************************************************************************)
Base64Alphabet ==
    << "A","B","C","D","E","F","G","H","I","J","K","L","M","N","O","P",
       "Q","R","S","T","U","V","W","X","Y","Z","a","b","c","d","e","f",
       "g","h","i","j","k","l","m","n","o","p","q","r","s","t","u","v",
       "w","x","y","z","0","1","2","3","4","5","6","7","8","9","+","/" >>

Base64Pad == "="

Sextet(n) == Base64Alphabet[n + 1]

SextetOf(c) == (CHOOSE k \in 1..64 : Base64Alphabet[k] = c) - 1

RECURSIVE Base64EncodeNoTail(_)
Base64EncodeNoTail(b) ==
    IF Len(b) < 3 THEN <<>>
    ELSE << Sextet(b[1] \div 4),
            Sextet((b[1] % 4) * 16 + b[2] \div 16),
            Sextet((b[2] % 16) * 4 + b[3] \div 64),
            Sextet(b[3] % 64) >> \o Base64EncodeNoTail(SubSeq(b, 4, Len(b)))

RECURSIVE Base64Encode(_)
Base64Encode(b) ==
    IF Len(b) = 0 THEN <<>>
    ELSE IF Len(b) = 1 THEN
        << Sextet(b[1] \div 4), Sextet((b[1] % 4) * 16), Base64Pad, Base64Pad >>
    ELSE IF Len(b) = 2 THEN
        << Sextet(b[1] \div 4),
           Sextet((b[1] % 4) * 16 + b[2] \div 16),
           Sextet((b[2] % 16) * 4),
           Base64Pad >>
    ELSE << Sextet(b[1] \div 4),
            Sextet((b[1] % 4) * 16 + b[2] \div 16),
            Sextet((b[2] % 16) * 4 + b[3] \div 64),
            Sextet(b[3] % 64) >> \o Base64Encode(SubSeq(b, 4, Len(b)))

RECURSIVE Base64Decode(_)
Base64Decode(s) ==
    IF Len(s) < 4 THEN <<>>
    ELSE LET c1 == SextetOf(s[1])
             c2 == SextetOf(s[2])
             rest == SubSeq(s, 5, Len(s))
         IN  IF s[3] = Base64Pad THEN << c1 * 4 + c2 \div 16 >>
             ELSE IF s[4] = Base64Pad THEN
                 << c1 * 4 + c2 \div 16,
                    (c2 % 16) * 16 + SextetOf(s[3]) \div 4 >>
             ELSE << c1 * 4 + c2 \div 16,
                     (c2 % 16) * 16 + SextetOf(s[3]) \div 4,
                     (SextetOf(s[3]) % 4) * 64 + SextetOf(s[4]) >>
                  \o Base64Decode(rest)

(***************************************************************************)
(* fileToGenerativePart(filePath, mimeType), given the bytes that          *)
(* fs.readFileSync(filePath) returned.                                     *)
(***************************************************************************)
fileToGenerativePart(bytes, mimeType) ==
    [inlineData |-> [data |-> Base64Encode(bytes), mimeType |-> mimeType]]

(***************************************************************************)
(* The requests, the upload store and the backend.                         *)
(***************************************************************************)
Invocations == {"r1", "r2"}

AssetEndpoints == {"image", "document", "audio"}

Endpoints == {"text"} \cup AssetEndpoints

Prompts == {undefined, <<"">>, <<"Hello">>}

Uploads ==
    { [bytes |-> <<>>, mimetype |-> "image/png"],
      [bytes |-> <<77>>, mimetype |-> "application/pdf"] }

BackendTexts == {"Hi there", "A cat"}

BackendMessages == {"quota exceeded", "API key not valid"}

\* What model.generateContent(...) followed by response.text() resolves to.
BackendResults ==
    {[ok |-> TRUE, value |-> t] : t \in BackendTexts}
        \cup {[ok |-> FALSE, value |-> m] : m \in BackendMessages}

ENOENT == "ENOENT: no such file or directory"
EPERM == "EPERM: operation not permitted"
TypeErrorMessage == "Cannot read properties of undefined (reading 'path')"

\* An upload store that names every file the same (a fixed filename instead
\* of multer's random one).
UploadPathShared(i) == "r1"

\* multer stores each upload under a fresh random name in uploads/: one path
\* per invocation.
UploadPath(i) == i

DefaultPrompt(endpoint) ==
    CASE endpoint = "image" -> "Describe this image"
      [] endpoint = "document" -> "Summarize this document"
      [] endpoint = "audio" -> "Transcribe this audio"

MissingFileMessage(endpoint) ==
    CASE endpoint = "image" -> "No image file uploaded."
      [] endpoint = "document" -> "No document file uploaded."
      [] endpoint = "audio" -> "No audio file uploaded."

\* JavaScript truthiness of a value that is undefined or a string.
Truthy(v) == v # undefined /\ v[1] # ""

\* req.body.prompt ?? default: what a nullish test would do instead of ||.
ResolvePromptNullish(prompt, endpoint) ==
    IF prompt # undefined THEN prompt[1] ELSE DefaultPrompt(endpoint)

\* req.body.prompt || '<default prompt>'
ResolvePrompt(prompt, endpoint) ==
    IF Truthy(prompt) THEN prompt[1] ELSE DefaultPrompt(endpoint)

\* /generate-text with a default substituted as on the other endpoints.
TextInputDefaulted(body) ==
    IF Truthy(body.prompt) THEN body.prompt ELSE <<"Describe this image">>

\* const { prompt } = req.body; the prompt goes to the backend as it is.
TextInput(body) == body.prompt

TextPart(s) == [kind |-> "text", text |-> s, data |-> <<>>, mimeType |-> ""]

MediaPart(p) ==
    [kind |-> "media", text |-> "",
     data |-> p.inlineData.data, mimeType |-> p.inlineData.mimeType]

\* model.generateContent(prompt): the bare prompt, no array.
BareCall(prompt) == [bare |-> TRUE, prompt |-> prompt, parts |-> <<>>]

\* model.generateContent([part, prompt]): the two elements swapped.
ArrayCallMediaFirst(prompt, p) ==
    [bare |-> FALSE, prompt |-> undefined, parts |-> <<MediaPart(p), TextPart(prompt)>>]

\* model.generateContent([prompt, part])
ArrayCall(prompt, p) ==
    [bare |-> FALSE, prompt |-> undefined, parts |-> <<TextPart(prompt), MediaPart(p)>>]

OkResponse(text) == [status |-> 200, key |-> "text", value |-> text]

ErrorResponse(message) == [status |-> 500, key |-> "error", value |-> message]

MissingInputResponse(endpoint) ==
    [status |-> 400, key |-> "error", value |-> MissingFileMessage(endpoint)]

existsSync(path, d) == d[path] # <<>>

\* fs.unlinkSync(path): the outcomes it can have on store d. A missing file
\* raises ENOENT; an existing file is removed, or the removal is refused
\* (EPERM) and the file stays.
unlinkSync(path, d) ==
    IF ~existsSync(path, d)
    THEN {[raised |-> TRUE, message |-> ENOENT, disk |-> d]}
    ELSE {[raised |-> FALSE, message |-> "", disk |-> [d EXCEPT ![path] = <<>>]],
          [raised |-> TRUE, message |-> EPERM, disk |-> d]}

UnlinkEntry(branch, existed, raised) ==
    [branch |-> branch, existed |-> existed, raised |-> raised]

\* !req.file dropped: the handler goes on without a file.
MissingInputNever(r) == FALSE

\* !req.file
MissingInput(r) == r.file = undefined

\* A catch block that never cleans up.
CatchCleansNever(file, d) == FALSE

\* The catch guard without its fs.existsSync test.
CatchCleansUnchecked(file, d) == file # undefined

\* req.file && fs.existsSync(req.file.path)
CatchCleans(file, d) == file # undefined /\ existsSync(file[1].path, d)

\* The state a run of handler code leaves behind: the store, the unlink calls,
\* the exceptions raised in the try block, the responses sent, the backend
\* calls made, where the handler stands, and what the run did, in program
\* order: "read" (fs.readFileSync), "call" (model.generateContent invoked),
\* "resolved" (the awaited call settled), "unlink" (fs.unlinkSync called),
\* "cleanup-skipped" (the catch guard found nothing to remove), "response".
Outcome(p, d, log, th, resp, cs, ev) ==
    [pc |-> p, disk |-> d, log |-> log, thrown |-> th, resp |-> resp, calls |-> cs,
     events |-> ev]

\* A catch block that issues the backend call once more after its first
\* failure instead of answering.
catchBlockRetrying(file, d, log, th, cs, message, ev) ==
    IF th = <<"backend">> /\ Len(cs) = 1
    THEN { Outcome("AwaitingBackend", d, log, th, <<>>, Append(cs, cs[1]),
                   ev \o <<"call">>) }
    ELSE { Outcome("Done", d, log, th, <<ErrorResponse(message)>>, cs,
                   ev \o <<"cleanup-skipped", "response">>) }

\* The catch block of an upload handler, entered with error.message = message
\* after the try block did ev.
catchBlock(file, d, log, th, cs, message, ev) ==
    IF CatchCleans(file, d)
    THEN LET existed == existsSync(file[1].path, d)
         IN  { IF u.raised
               THEN Outcome("Escaped", u.disk,
                            Append(log, UnlinkEntry("catch", existed, TRUE)), th, <<>>, cs,
                            ev \o <<"unlink">>)
               ELSE Outcome("Done", u.disk,
                            Append(log, UnlinkEntry("catch", existed, FALSE)), th,
                            <<ErrorResponse(message)>>, cs,
                            ev \o <<"unlink", "response">>)
               : u \in unlinkSync(file[1].path, d) }
    ELSE { Outcome("Done", d, log, th, <<ErrorResponse(message)>>, cs,
                   ev \o <<"cleanup-skipped", "response">>) }

\* An upload handler whose model.generateContent call is not awaited: the
\* handler reads result.response of a pending promise, lands in the catch
\* block and cleans up while the backend call is still in flight.
uploadHandlerStartNoAwait(r, d) ==
    IF MissingInput(r)
    THEN { Outcome("Done", d, <<>>, <<>>, <<MissingInputResponse(r.endpoint)>>, <<>>,
                   <<"response">>) }
    ELSE IF ~existsSync(r.file[1].path, d)
    THEN catchBlock(r.file, d, <<>>, <<"read">>, <<>>, ENOENT, <<"read">>)
    ELSE catchBlock(r.file, d, <<>>, <<"type">>,
                    << ArrayCall(ResolvePrompt(r.prompt, r.endpoint),
                                 fileToGenerativePart(d[r.file[1].path][1],
                                                      r.file[1].mimetype)) >>,
                    TypeErrorMessage, <<"read", "call">>)

\* An upload handler from its entry to its first await.
uploadHandlerStart(r, d) ==
    IF MissingInput(r)
    THEN { Outcome("Done", d, <<>>, <<>>, <<MissingInputResponse(r.endpoint)>>, <<>>,
                   <<"response">>) }
    ELSE IF r.file = undefined
    THEN catchBlock(r.file, d, <<>>, <<"type">>, <<>>, TypeErrorMessage, <<>>)
    ELSE IF ~existsSync(r.file[1].path, d)
    THEN catchBlock(r.file, d, <<>>, <<"read">>, <<>>, ENOENT, <<"read">>)
    ELSE { Outcome("AwaitingBackend", d, <<>>, <<>>, <<>>,
                   << ArrayCall(ResolvePrompt(r.prompt, r.endpoint),
                                fileToGenerativePart(d[r.file[1].path][1],
                                                     r.file[1].mimetype)) >>,
                   <<"read", "call">>) }

\* An upload handler that answers res.json({ text }) first and removes the
\* file afterwards.
uploadHandlerResumeRespondFirst(r, d, cs, res) ==
    IF ~res.ok
    THEN catchBlock(r.file, d, <<>>, <<"backend">>, cs, res.value, <<"resolved">>)
    ELSE LET existed == existsSync(r.file[1].path, d)
         IN  { Outcome("Done", u.disk, <<UnlinkEntry("try", existed, u.raised)>>,
                       IF u.raised THEN <<"unlink">> ELSE <<>>,
                       <<OkResponse(res.value)>>, cs,
                       <<"resolved", "response", "unlink">>)
               : u \in unlinkSync(r.file[1].path, d) }

\* An upload handler from the backend's answer to its end.
uploadHandlerResume(r, d, cs, res) ==
    IF ~res.ok
    THEN catchBlock(r.file, d, <<>>, <<"backend">>, cs, res.value, <<"resolved">>)
    ELSE LET existed == existsSync(r.file[1].path, d)
         IN  UNION { IF u.raised
                     THEN catchBlock(r.file, u.disk,
                                     <<UnlinkEntry("try", existed, TRUE)>>,
                                     <<"unlink">>, cs, u.message,
                                     <<"resolved", "unlink">>)
                     ELSE { Outcome("Done", u.disk,
                                    <<UnlinkEntry("try", existed, FALSE)>>, <<>>,
                                    <<OkResponse(res.value)>>, cs,
                                    <<"resolved", "unlink", "response">>) }
                     : u \in unlinkSync(r.file[1].path, d) }

\* A catch block pasted from an upload handler with the guard left out.
textCatchWithCleanup(message, d, cs) ==
    { Outcome("Escaped", d, <<UnlinkEntry("catch", FALSE, TRUE)>>, <<"backend">>, <<>>, cs,
              <<"resolved", "unlink">>) }

\* The catch block of /generate-text.
textCatch(message, d, cs) ==
    { Outcome("Done", d, <<>>, <<"backend">>, <<ErrorResponse(message)>>, cs,
              <<"resolved", "response">>) }

\* /generate-text from its entry to its first await.
textHandlerStart(r, d) ==
    { Outcome("AwaitingBackend", d, <<>>, <<>>, <<>>, <<BareCall(TextInput(r))>>,
              <<"call">>) }

\* /generate-text from the backend's answer to its end.
textHandlerResume(r, d, cs, res) ==
    IF ~res.ok
    THEN textCatch(res.value, d, cs)
    ELSE { Outcome("Done", d, <<>>, <<>>, <<OkResponse(res.value)>>, cs,
                   <<"resolved", "response">>) }

NoRequest == [endpoint |-> "none", prompt |-> undefined, file |-> undefined]

Requests(i) ==
    {[endpoint |-> "text", prompt |-> p, file |-> undefined] : p \in Prompts}
        \cup {[endpoint |-> e, prompt |-> p, file |-> f] :
                 e \in AssetEndpoints, p \in Prompts,
                 f \in {undefined}
                        \cup {<<[path |-> UploadPath(i), mimetype |-> u.mimetype,
                                 bytes |-> u.bytes]>> : u \in Uploads}}

(***************************************************************************)
(* The pipeline's state machine.                                           *)
(***************************************************************************)
PipelineInit ==
    /\ req = [i \in Invocations |-> NoRequest]
    /\ pc = [i \in Invocations |-> "Idle"]
    /\ disk = [i \in Invocations |-> <<>>]
    /\ calls = [i \in Invocations |-> <<>>]
    /\ result = [i \in Invocations |-> <<>>]
    /\ unlinkLog = [i \in Invocations |-> <<>>]
    /\ thrown = [i \in Invocations |-> <<>>]
    /\ responses = [i \in Invocations |-> <<>>]
    /\ events = [i \in Invocations |-> <<>>]

PartIdle ==
    /\ srcBytes = <<>>
    /\ srcMime = ""
    /\ part = <<>>

Init == PipelineInit /\ PartIdle

Apply(i, o) ==
    /\ pc' = [pc EXCEPT ![i] = o.pc]
    /\ disk' = o.disk
    /\ unlinkLog' = [unlinkLog EXCEPT ![i] = o.log]
    /\ thrown' = [thrown EXCEPT ![i] = o.thrown]
    /\ responses' = [responses EXCEPT ![i] = o.resp]
    /\ calls' = [calls EXCEPT ![i] = o.calls]
    /\ events' = [events EXCEPT ![i] = @ \o o.events]

\* A request arrives; upload.single(field) stores the attached file, if any,
\* and sets req.file.
Receive(i) ==
    /\ pc[i] = "Idle"
    /\ \E r \in Requests(i) :
          /\ req' = [req EXCEPT ![i] =
                        [endpoint |-> r.endpoint, prompt |-> r.prompt,
                         file |-> IF r.file = undefined THEN undefined
                                  ELSE <<[path |-> r.file[1].path,
                                          mimetype |-> r.file[1].mimetype]>>]]
          /\ disk' = IF r.file = undefined THEN disk
                     ELSE [disk EXCEPT ![r.file[1].path] = <<r.file[1].bytes>>]
    /\ pc' = [pc EXCEPT ![i] = "Received"]
    /\ UNCHANGED <<calls, result, unlinkLog, thrown, responses, events, partVars>>

\* The handler runs from its entry to its first await (or to its end).
Start(i) ==
    /\ pc[i] = "Received"
    /\ \E o \in IF req[i].endpoint = "text"
                THEN textHandlerStart(req[i], disk)
                ELSE uploadHandlerStart(req[i], disk) : Apply(i, o)
    /\ UNCHANGED <<req, result, partVars>>

\* The backend call resolves and the handler runs to its end.
BackendResolves(i) ==
    /\ pc[i] = "AwaitingBackend"
    /\ \E res \in BackendResults :
          /\ result' = [result EXCEPT ![i] = <<res>>]
          /\ \E o \in IF req[i].endpoint = "text"
                      THEN textHandlerResume(req[i], disk, calls[i], res)
                      ELSE uploadHandlerResume(req[i], disk, calls[i], res) : Apply(i, o)
    /\ UNCHANGED <<req, partVars>>

\* Something outside the server removes a stored upload.
ExternalRemove(p) ==
    /\ existsSync(p, disk)
    /\ disk' = [disk EXCEPT ![p] = <<>>]
    /\ UNCHANGED <<req, pc, calls, result, unlinkLog, thrown, responses, events, partVars>>

Next ==
    \E i \in Invocations :
        \/ Receive(i)
        \/ Start(i)
        \/ BackendResolves(i)
        \/ ExternalRemove(UploadPath(i))

Spec == Init /\ [][Next]_vars

(***************************************************************************)
(* fileToGenerativePart on its own: any stored bytes, any declared type.   *)
(***************************************************************************)
PartInit ==
    /\ PipelineInit
    /\ srcBytes \in SeqsUpTo(ByteValues, MaxLen)
    /\ srcMime \in MimeTypes
    /\ part = <<>>

BuildPart ==
    /\ part = <<>>
    /\ part' = <<fileToGenerativePart(srcBytes, srcMime)>>
    /\ UNCHANGED <<srcBytes, srcMime, pipelineVars>>

PartNext == BuildPart

SpecPart == PartInit /\ [][PartNext]_vars

(***************************************************************************)
(* Properties.                                                             *)
(***************************************************************************)
Finished(i) == pc[i] \in {"Done", "Escaped"}

HasAsset(i) == req[i].file # undefined

UploadInvocation(i) == req[i].endpoint \in AssetEndpoints

RaisedUnlinks(i) == {k \in 1..Len(unlinkLog[i]) : unlinkLog[i][k].raised}

\* C1: every finished invocation of an upload endpoint that received a file
\* has called fs.unlinkSync on its file exactly once, whatever path it took.
C1_DisposedExactlyOnce ==
    \A i \in Invocations :
        (Finished(i) /\ UploadInvocation(i) /\ HasAsset(i)) => Len(unlinkLog[i]) = 1

\* C2: when the backend succeeded with text t and an unlink of the temporary
\* file raised, the one response sent is still 200 {text: t}.
C2_SuccessSurvivesDisposalFailure ==
    \A i \in Invocations :
        (/\ Finished(i)
         /\ HasAsset(i)
         /\ result[i] # <<>>
         /\ result[i][1].ok
         /\ RaisedUnlinks(i) # {})
            => responses[i] = <<[status |-> 200, key |-> "text", value |-> result[i][1].value]>>

\* C3: when the backend failed with message m in an invocation holding a file,
\* the response is 500 {error: m} and the file is gone from the upload store.
C3_BackendFailureIs500AndDisposed ==
    \A i \in Invocations :
        (/\ Finished(i)
         /\ HasAsset(i)
         /\ result[i] # <<>>
         /\ ~result[i][1].ok)
            => /\ responses[i] =
                    <<[status |-> 500, key |-> "error", value |-> result[i][1].value]>>
               /\ ~existsSync(req[i].file[1].path, disk)

\* C4: an upload endpoint invoked without a file answers 400 with the
\* endpoint's "No ... file uploaded." message and never calls the backend.
C4_MissingInputIs400 ==
    \A i \in Invocations :
        (UploadInvocation(i) /\ ~HasAsset(i) /\ pc[i] # "Received")
            => /\ pc[i] = "Done"
               /\ calls[i] = <<>>
               /\ result[i] = <<>>
               /\ responses[i] =
                    <<[status |-> 400, key |-> "error",
                       value |-> CASE req[i].endpoint = "image" -> "No image file uploaded."
                                   [] req[i].endpoint = "document" -> "No document file uploaded."
                                   [] req[i].endpoint = "audio" -> "No audio file uploaded."]>>

C4_Witness ==
    \E i \in Invocations :
        /\ pc[i] = "Done"
        /\ req[i].endpoint = "audio"
        /\ ~HasAsset(i)
        /\ responses[i] # <<>>

\* C5: no fs.unlinkSync call made on a file that is already gone from the
\* store raises, in the try branch or in the catch branch.
C5_DisposalNeverRaisesOnMissing ==
    \A i \in Invocations :
        \A k \in 1..Len(unlinkLog[i]) :
            ~unlinkLog[i][k].existed => ~unlinkLog[i][k].raised

\* C6: on the upload endpoints the prompt handed to the backend is the
\* caller's prompt when that is non-empty and the endpoint's default when it
\* is empty or absent; one of the two, never a mix.
C6_PromptResolution ==
    \A i \in Invocations :
        (UploadInvocation(i) /\ calls[i] # <<>>)
            => /\ Len(calls[i][1].parts) >= 1
               /\ calls[i][1].parts[1].kind = "text"
               /\ calls[i][1].parts[1].text =
                    IF req[i].prompt # <<>> /\ req[i].prompt # <<"">>
                    THEN req[i].prompt[1]
                    ELSE CASE req[i].endpoint = "image" -> "Describe this image"
                           [] req[i].endpoint = "document" -> "Summarize this document"
                           [] req[i].endpoint = "audio" -> "Transcribe this audio"

C6_Witness ==
    \E i, j \in Invocations :
        /\ UploadInvocation(i) /\ calls[i] # <<>> /\ req[i].prompt = <<"">>
        /\ UploadInvocation(j) /\ calls[j] # <<>> /\ req[j].prompt = <<"Hello">>

C8_NoAssetNoDisposal ==
    \A i \in Invocations : ~HasAsset(i) => unlinkLog[i] = <<>>

C8_Witness ==
    \E i, j \in Invocations :
        /\ req[i].endpoint = "text" /\ Finished(i) /\ result[i] # <<>> /\ ~result[i][1].ok
        /\ UploadInvocation(j) /\ ~HasAsset(j) /\ Finished(j)

\* C9: /generate-text hands req.body.prompt to the backend as it is, absent
\* and empty included, and answers 200 {text: t} on success t and
\* 500 {error: m} on failure m.
C9_TextPassThrough ==
    \A i \in Invocations :
        req[i].endpoint = "text" =>
            /\ pc[i] \in {"AwaitingBackend", "Done", "Escaped"}
                  => calls[i] = <<[bare |-> TRUE, prompt |-> req[i].prompt, parts |-> <<>>]>>
            /\ Finished(i)
                  => /\ result[i] # <<>>
                     /\ responses[i] =
                          << IF result[i][1].ok
                             THEN [status |-> 200, key |-> "text", value |-> result[i][1].value]
                             ELSE [status |-> 500, key |-> "error", value |-> result[i][1].value] >>

C9_Witness ==
    \E i, j \in Invocations :
        /\ req[i].endpoint = "text" /\ pc[i] = "Done"
        /\ req[i].prompt = undefined /\ result[i][1].ok
        /\ req[j].endpoint = "text" /\ pc[j] = "Done"
        /\ req[j].prompt = <<"">> /\ ~result[j][1].ok

\* C10: decoding the base64 data of the part fileToGenerativePart returns
\* gives back exactly the bytes read, the empty file included, and the part
\* carries the declared MIME type unchanged.
C10_PartIsLossless ==
    part # <<>> =>
        /\ Base64Decode(part[1].inlineData.data) = srcBytes
        /\ part[1].inlineData.mimeType = srcMime

C10_Witness ==
    /\ part # <<>>
    /\ Len(srcBytes) = 2
    /\ part[1].inlineData.data # <<>>

Positions(i, name) == {k \in 1..Len(events[i]) : events[i][k] = name}

\* C11: in an invocation holding a file, no fs.unlinkSync call is made while
\* the handler has still to build its parts or is waiting for the backend,
\* and every unlink call comes after the backend call was issued and had
\* resolved.
C11_DisposalAfterBackend ==
    \A i \in Invocations :
        HasAsset(i) =>
            /\ pc[i] \in {"Received", "AwaitingBackend"} => Positions(i, "unlink") = {}
            /\ \A k \in Positions(i, "unlink") :
                  \A c \in Positions(i, "call") :
                      /\ c < k
                      /\ \E r \in Positions(i, "resolved") : c < r /\ r < k

C11_Witness ==
    \E i \in Invocations :
        /\ HasAsset(i)
        /\ pc[i] = "Done"
        /\ Positions(i, "call") # {}
        /\ Positions(i, "unlink") # {}

\* C12: no exception escapes a handler, and an invocation whose handler has
\* run to its end has sent exactly one HTTP response.
C12_OneResponseNoEscape ==
    \A i \in Invocations :
        /\ pc[i] # "Escaped"
        /\ Finished(i) => Len(responses[i]) = 1

\* C13: an upload invocation that reaches the backend hands it exactly one
\* array of exactly two parts: first the resolved prompt as text, then the
\* media part, whose data decodes to the bytes of the uploaded file and whose
\* MIME type is the declared one.
C13_RequestIsPromptThenMedia ==
    \A i \in Invocations :
        (UploadInvocation(i) /\ calls[i] # <<>>) =>
            LET c == calls[i][1]
            IN  /\ ~c.bare
                /\ Len(c.parts) = 2
                /\ c.parts[1] =
                     [kind |-> "text", data |-> <<>>, mimeType |-> "",
                      text |-> IF req[i].prompt \in {<<>>, <<"">>}
                               THEN CASE req[i].endpoint = "image" -> "Describe this image"
                                      [] req[i].endpoint = "document" -> "Summarize this document"
                                      [] req[i].endpoint = "audio" -> "Transcribe this audio"
                               ELSE req[i].prompt[1]]
                /\ c.parts[2].kind = "media"
                /\ c.parts[2].text = ""
                /\ c.parts[2].mimeType = req[i].file[1].mimetype
                /\ [bytes |-> Base64Decode(c.parts[2].data),
                    mimetype |-> c.parts[2].mimeType] \in Uploads
                /\ (pc[i] = "AwaitingBackend" /\ existsSync(req[i].file[1].path, disk))
                      => <<Base64Decode(c.parts[2].data)>> = disk[req[i].file[1].path]

C13_Witness ==
    \E i \in Invocations :
        /\ req[i].endpoint = "document"
        /\ req[i].prompt = undefined
        /\ req[i].file # undefined
        /\ req[i].file[1].mimetype = "application/pdf"
        /\ Len(calls[i]) = 1
        /\ result[i] # <<>>

\* C14: no invocation of any of the four endpoints calls the generation
\* backend more than once, a failed call included.
C14_NoRetry ==
    \A i \in Invocations :
        /\ Len(calls[i]) <= 1
        /\ Cardinality(Positions(i, "call")) = Len(calls[i])
        /\ Cardinality(Positions(i, "resolved")) <= 1

C14_Witness ==
    \E i, j \in Invocations :
        /\ req[i].endpoint = "text" /\ Finished(i)
        /\ result[i] # <<>> /\ ~result[i][1].ok /\ Len(calls[i]) = 1
        /\ UploadInvocation(j) /\ Finished(j)
        /\ result[j] # <<>> /\ ~result[j][1].ok /\ Len(calls[j]) = 1

InFlight(i) == pc[i] \in {"Received", "AwaitingBackend"}

\* C15: a step of one invocation (its upload being stored, its handler
\* starting, its backend call resolving) changes nothing of any other
\* invocation and leaves the stored file of every other in-flight invocation
\* as it was; and the response an invocation sends is made of its own
\* endpoint, its own backend result or the error of its own file operation.
C15_InvocationsAreIsolated ==
    [][ \A i \in Invocations :
          pc'[i] # pc[i] =>
            /\ \A j \in Invocations \ {i} :
                  /\ pc'[j] = pc[j]
                  /\ req'[j] = req[j]
                  /\ calls'[j] = calls[j]
                  /\ result'[j] = result[j]
                  /\ unlinkLog'[j] = unlinkLog[j]
                  /\ responses'[j] = responses[j]
                  /\ events'[j] = events[j]
                  /\ (InFlight(j) /\ HasAsset(j))
                        => disk'[req[j].file[1].path] = disk[req[j].file[1].path]
            /\ \A k \in 1..Len(responses'[i]) :
                  \/ /\ result'[i] # <<>>
                     /\ responses'[i][k] \in
                          { [status |-> 200, key |-> "text", value |-> result'[i][1].value],
                            [status |-> 500, key |-> "error", value |-> result'[i][1].value] }
                     /\ responses'[i][k].status = 200 <=> result'[i][1].ok
                  \/ /\ HasAsset(i)'
                     /\ responses'[i][k] \in
                          { [status |-> 500, key |-> "error", value |-> ENOENT],
                            [status |-> 500, key |-> "error", value |-> EPERM] }
                  \/ /\ ~HasAsset(i)'
                     /\ UploadInvocation(i)'
                     /\ responses'[i][k].status = 400
      ]_vars

C15_Witness ==
    \E i, j \in Invocations :
        /\ i # j
        /\ HasAsset(i) /\ pc[i] = "Done"
        /\ Positions(i, "unlink") # {}
        /\ ~existsSync(req[i].file[1].path, disk)
        /\ HasAsset(j) /\ pc[j] = "AwaitingBackend"
        /\ existsSync(req[j].file[1].path, disk)

\* C16: once an invocation holding a file has sent its response (200 or
\* 500), the file is no longer in the upload store, provided no unlink of an
\* existing file was refused.
C16_NoLeakAfterResponse ==
    \A i \in Invocations :
        (/\ HasAsset(i)
         /\ responses[i] # <<>>
         /\ \A k \in 1..Len(unlinkLog[i]) :
               ~(unlinkLog[i][k].existed /\ unlinkLog[i][k].raised))
            => ~existsSync(req[i].file[1].path, disk)

C16_Witness ==
    \E i, j \in Invocations :
        /\ HasAsset(i) /\ pc[i] = "Done"
        /\ responses[i][1].status = 500
        /\ unlinkLog[i] = <<[branch |-> "catch", existed |-> TRUE, raised |-> FALSE]>>
        /\ HasAsset(j) /\ pc[j] = "Done"
        /\ responses[j][1].status = 200

DisposalSteps(i) == Positions(i, "unlink") \cup Positions(i, "cleanup-skipped")

\* C17: in an invocation holding a file, every response is sent after the
\* handler's cleanup step ran (an fs.unlinkSync call, or the catch guard
\* finding no file left to remove), and no cleanup step follows a response.
C17_ResponseAfterDisposal ==
    \A i \in Invocations :
        HasAsset(i) =>
            /\ responses[i] # <<>> => Positions(i, "response") # {}
            /\ \A k \in Positions(i, "response") :
                  /\ \E m \in DisposalSteps(i) : m < k
                  /\ \A m \in DisposalSteps(i) : m < k

C17_Witness ==
    \E i, j \in Invocations :
        /\ HasAsset(i)
        /\ events[i] = <<"read", "call", "resolved", "unlink", "response">>
        /\ responses[i][1].status = 200
        /\ HasAsset(j)
        /\ events[j] = <<"read", "call", "resolved", "unlink", "response">>
        /\ responses[j][1].status = 500

====
